---- MODULE Spec2Model ----
(***************************************************************************)
(* Model of lib/ansible/modules/notification/feishu.py: one invocation of  *)
(* the feishu module (main), the FeishuRobot class it drives (__init__,    *)
(* gen_sign, sendTextmessage) and the reports it hands to the framework    *)
(* through exit_json / fail_json.                                          *)
(*                                                                         *)
(* Strings are sequences of one-character tokens.  A literal of the source *)
(* that is never taken apart is kept as one token.                         *)
(***************************************************************************)
EXTENDS Integers, Sequences, FiniteSets, TLC

VARIABLES
    webhook,         \* module.params["webhook"]            (line 161)
    secret,          \* module.params["secret"]             (line 162)
    ats,             \* module.params["ats"], None if absent (line 163)
    msg,             \* module.params["msg"]                (line 164)
    check_mode,      \* module.check_mode                   (line 115)
    pc,              \* position of the invocation
    timestamp,       \* sendTextmessage's local timestamp   (line 133)
    string_to_sign,  \* gen_sign's local string_to_sign     (line 121)
    sign,            \* sendTextmessage's local sign        (line 134)
    requests,        \* the HTTP POSTs issued, in order     (line 146)
    response,        \* what the endpoint answered, or None (line 146)
    failure,         \* the network condition that made the POST raise, or "none"
    raised,          \* the exception caught at line 170, or None
    reports,         \* the exit_json / fail_json reports emitted, in order
    prev             \* summary of the previous invocation, or None

vars == <<webhook, secret, ats, msg, check_mode, pc, timestamp, string_to_sign,
          sign, requests, response, failure, raised, reports, prev>>

\* Python's None and a present value: the empty and the one-element tuple.
None == <<>>
Some(x) == <<x>>
Val(o) == o[1]

Terminal == {"Succeeded", "Failed"}

-----------------------------------------------------------------------------
(* Characters *)

LF  == "\n"
NUL == "NUL"
BS  == "\\"
QUOTE == "\""

Digits == <<"0", "1", "2", "3", "4", "5", "6", "7", "8", "9">>

\* "{}".format(timestamp) of a non-negative int: its decimal digits, no
\* leading zero (lines 121, 136).
RECURSIVE Dec(_)
Dec(n) == IF n < 10 THEN <<Digits[n + 1]>>
          ELSE Dec(n \div 10) \o <<Digits[(n % 10) + 1]>>

\* The inverse reading of a decimal string, as the endpoint parses the
\* timestamp field; -1 when the string is no decimal number.
DigitValue(c) == IF \E d \in 1..10 : Digits[d] = c
                 THEN (CHOOSE d \in 1..10 : Digits[d] = c) - 1
                 ELSE -1

RECURSIVE ParseDec(_)
ParseDec(s) ==
    IF s = <<>> THEN -1
    ELSE IF DigitValue(s[Len(s)]) < 0 THEN -1
    ELSE IF Len(s) = 1 THEN DigitValue(s[1])
    ELSE IF ParseDec(SubSeq(s, 1, Len(s) - 1)) < 0 THEN -1
    ELSE 10 * ParseDec(SubSeq(s, 1, Len(s) - 1)) + DigitValue(s[Len(s)])

-----------------------------------------------------------------------------
(* FeishuRobot.gen_sign, lines 119-125 *)

\* Mutant of StringToSign: the separator is left out.
StringToSignNoSeparator(ts, sec) == Dec(ts) \o sec

\* '{}\n{}'.format(timestamp, secret)   (line 121)
StringToSign(ts, sec) == Dec(ts) \o <<LF>> \o sec

\* SHA-256 taken as collision-free: the digest is a term over its input.
Sha256(data) == [sha256 |-> data]

BlockSize  == 64
DigestSize == 32

Zeros(n) == [i \in 1..n |-> NUL]

\* HMAC brings its key to one block: a key longer than the block is hashed,
\* and the result is filled up with zero bytes (hmac.new, line 122).
KeyBlock(key) ==
    IF Len(key) > BlockSize
    THEN <<Sha256(key)>> \o Zeros(BlockSize - DigestSize)
    ELSE key \o Zeros(BlockSize - Len(key))

\* hmac.new(key, digestmod=hashlib.sha256).digest(): the string is the KEY and
\* the message is empty (line 122).
HmacDigest(key, message) ==
    Sha256(<<[pad |-> "opad", block |-> KeyBlock(key)],
             Sha256(<<[pad |-> "ipad", block |-> KeyBlock(key)], message>>)>>)

\* base64.b64encode(...).decode('utf-8')   (line 123)
B64Encode(digest) == [b64 |-> digest]

gen_sign(sec, ts) ==
    B64Encode(HmacDigest(StringToSign(ts, sec), <<>>))

-----------------------------------------------------------------------------
(* json.dumps of a str, line 146 *)

\* Mutant of JsonEscape: the backslash is passed through unescaped.
JsonEscapeNoBackslash(c) ==
    IF c = QUOTE THEN <<BS, QUOTE>>
    ELSE IF c = LF THEN <<BS, "n">>
    ELSE IF c = NUL THEN <<BS, "u0000">>
    ELSE <<c>>

JsonEscape(c) ==
    IF c = QUOTE THEN <<BS, QUOTE>>
    ELSE IF c = BS THEN <<BS, BS>>
    ELSE IF c = LF THEN <<BS, "n">>
    ELSE IF c = NUL THEN <<BS, "u0000">>
    ELSE <<c>>

RECURSIVE JsonEscapeAll(_)
JsonEscapeAll(s) ==
    IF s = <<>> THEN <<>> ELSE JsonEscape(Head(s)) \o JsonEscapeAll(Tail(s))

JsonString(s) == <<QUOTE>> \o JsonEscapeAll(s) \o <<QUOTE>>

\* What a JSON parser reads back from the inside of a string literal.
RECURSIVE JsonUnescapeAll(_)
JsonUnescapeAll(s) ==
    IF s = <<>> THEN <<>>
    ELSE IF Head(s) = BS /\ Len(s) >= 2
    THEN <<(CASE s[2] = "n" -> LF
              [] s[2] = "u0000" -> NUL
              [] OTHER -> s[2])>> \o JsonUnescapeAll(SubSeq(s, 3, Len(s)))
    ELSE <<Head(s)>> \o JsonUnescapeAll(Tail(s))

JsonLoadsString(lit) ==
    IF Len(lit) >= 2 /\ lit[1] = QUOTE /\ lit[Len(lit)] = QUOTE
    THEN JsonUnescapeAll(SubSeq(lit, 2, Len(lit) - 1))
    ELSE <<"not a JSON string">>

-----------------------------------------------------------------------------
(* FeishuRobot.sendTextmessage, lines 128-147 *)

\* Mutant of payload_message: the at-mention markup of the commented-out
\* line 143 is appended for the recipients.
payload_message_at(ts, sg, content) ==
    [timestamp |-> Dec(ts),
     sign      |-> sg,
     msg_type  |-> <<"t", "e", "x", "t">>,
     content   |-> [text |-> IF ats = None THEN content
                             ELSE content \o <<"<at user_id=">> \o Val(ats)
                                          \o <<"></at>">>]]

\* The dict of lines 135-145.  "{}".format(sign) of a str is that str.
payload_message(ts, sg, content) ==
    [timestamp |-> Dec(ts),
     sign      |-> sg,
     msg_type  |-> <<"t", "e", "x", "t">>,
     content   |-> [text |-> content]]

\* json.dumps(payload_message): every string value becomes a JSON string
\* literal; the base64 text of the signature needs no escaping and stays one
\* token between its quotes.
JsonDumps(p) ==
    [timestamp |-> JsonString(p.timestamp),
     sign      |-> [literal |-> p.sign],
     msg_type  |-> JsonString(p.msg_type),
     content   |-> [text |-> JsonString(p.content.text)]]

Headers == [ContentType |-> "application/json; charset=utf-8"]

\* requests.post(url=url, data=json.dumps(payload_message), headers=headers)
PostRequest(url, p) ==
    [method |-> "POST", url |-> url, headers |-> Headers, data |-> JsonDumps(p)]

-----------------------------------------------------------------------------
(* The inputs and the environment of one invocation *)

\* A webhook URL: scheme, host, path prefix, hook token.
Webhooks == { <<"https://", "open.feishu.cn", "/open-apis/bot/v2/hook/", "A">>,
              <<"https://", "open.feishu.cn", "/open-apis/bot/v2/hook/", "B">> }
Host(url) == <<url[2]>>
Path(url) == SubSeq(url, 3, Len(url))

Secrets == { <<"k">>, <<"x", "1">> }

AtsValues == { None, Some(<<"u", "|", "v">>) }

Msgs == { <<>>, <<"h", "i">>, <<QUOTE, BS, LF>> }

\* int(time.time()) at line 133.
Clock == { 9, 10 }

\* What the endpoint can answer: HTTP status and the decoded body's code and
\* msg.  requests.post does not raise for a 4xx status.
Responses ==
    { [status |-> 200, code |-> 0, msg |-> <<"success">>],
      [status |-> 200, code |-> 19021, msg |-> <<"sign match fail">>],
      [status |-> 400, code |-> 9499,
       msg |-> <<"Bad Request: message text is empty">>] }

\* The network conditions under which requests.post raises.
NetworkFailures == { "unreachable", "aborted" }

\* The exception requests.post(url=url, ...) raises at line 146.  The text of
\* the exception is built by the HTTP library from the request it was
\* sending: for a host it cannot reach it names the host and the path of the
\* URL, for a connection dropped by the peer it does not.
RequestsException(cond, url) ==
    IF cond = "unreachable"
    THEN [type    |-> "ConnectionError",
          message |-> <<"HTTPSConnectionPool(host=">> \o Host(url)
                      \o <<"): Max retries exceeded with url: ">> \o Path(url)]
    ELSE [type    |-> "ConnectionError",
          message |-> <<"Connection aborted.">>]

\* module.exit_json ends the process with sys.exit: it raises SystemExit
\* (line 116: "exit before actually sending the message").
SystemExit == [type |-> "SystemExit", message |-> <<>>]

\* Mutant of ExceptException: a bare except, which catches SystemExit too.
ExceptAll(e) == TRUE

\* "except Exception as e" (line 170): SystemExit derives from BaseException
\* and passes through.
ExceptException(e) == e.type # "SystemExit"

\* to_native(e): the text of the exception (line 171).
to_native(e) == e.message

\* traceback.format_exc(): the frames of the raise and the exception's line.
format_exc(e) ==
    <<"Traceback (most recent call last):", "main, line 168",
      "sendTextmessage, line 146", e.type, ": ">> \o e.message

\* Mutant of FailKwargs: a fixed message that leaves the text out.
FailKwargsGeneric(e) ==
    [msg          |-> <<"unable to send msg">>,
     feishu_error |-> to_native(e),
     exception    |-> format_exc(e)]

\* The keyword arguments of fail_json at line 171.
FailKwargs(e) ==
    [msg          |-> <<"unable to send msg: ">> \o msg,
     feishu_error |-> to_native(e),
     exception    |-> format_exc(e)]

\* Mutant of ExitKwargs: the recipients are not echoed.
ExitKwargsNoAts ==
    [changed |-> TRUE, ats |-> None, msg |-> msg]

\* The keyword arguments of exit_json at lines 173-174.
ExitKwargs ==
    [changed |-> TRUE, ats |-> ats, msg |-> msg]

\* A report as the framework receives it.
exit_json(kwargs) == [call |-> "exit_json", kwargs |-> kwargs]
fail_json(kwargs) == [call |-> "fail_json", kwargs |-> kwargs]

-----------------------------------------------------------------------------
(* main, lines 150-174 *)

\* Mutant of OnException: the failure is swallowed and the send is awaited
\* again.
OnExceptionSwallow(e) == [pc |-> "Sending", reports |-> reports]

\* Mutant of OnException: the failure is reported and the send is retried.
OnExceptionRetry(e) ==
    [pc |-> "Signing", reports |-> Append(reports, fail_json(FailKwargs(e)))]

\* The except clause's body, line 171: fail_json reports and ends the process
\* with exit status 1, so lines 173-174 are not reached.
OnException(e) ==
    [pc |-> "Failed", reports |-> Append(reports, fail_json(FailKwargs(e)))]

\* An exception e leaves the try block of lines 166-168 with the reports
\* `reps` already emitted: the except clause takes it or it ends the process.
\* SystemExit carries exit_json's status 0.
Propagate(e, reps) ==
    IF ExceptException(e)
    THEN [pc |-> OnException(e).pc,
          reports |-> reps \o SubSeq(OnException(e).reports,
                                     Len(reports) + 1,
                                     Len(OnException(e).reports)),
          raised |-> Some(e)]
    ELSE [pc |-> IF e.type = "SystemExit" THEN "Succeeded" ELSE "Failed",
          reports |-> reps,
          raised |-> None]

Init ==
    /\ webhook \in Webhooks
    /\ secret \in Secrets
    /\ ats \in AtsValues
    /\ msg \in Msgs
    /\ check_mode \in BOOLEAN
    /\ pc = "Idle"
    /\ timestamp = None
    /\ string_to_sign = None
    /\ sign = None
    /\ requests = <<>>
    /\ response = None
    /\ failure = "none"
    /\ raised = None
    /\ reports = <<>>
    /\ prev = None

\* main reads the parameters and constructs the robot (lines 161-167,
\* 111-117); in check mode __init__ calls exit_json(changed=False).  Otherwise
\* sendTextmessage starts and reads the clock (lines 168, 129-133).
Start ==
    /\ pc = "Idle"
    /\ IF check_mode
       THEN LET out == Propagate(SystemExit,
                                 Append(reports, exit_json([changed |-> FALSE])))
            IN  /\ pc' = out.pc
                /\ reports' = out.reports
                /\ raised' = out.raised
                /\ timestamp' = timestamp
       ELSE /\ \E t \in Clock : timestamp' = Some(t)
            /\ pc' = "Signing"
            /\ UNCHANGED <<reports, raised>>
    /\ UNCHANGED <<webhook, secret, ats, msg, check_mode, string_to_sign, sign,
                   requests, response, failure, prev>>

\* gen_sign is called, the payload is built and the POST is issued
\* (lines 134-146).
Sign ==
    /\ pc = "Signing"
    /\ string_to_sign' = Some(StringToSign(Val(timestamp), secret))
    /\ sign' = Some(gen_sign(secret, Val(timestamp)))
    /\ requests' = Append(requests,
                          PostRequest(webhook,
                                      payload_message(Val(timestamp), Val(sign'), msg)))
    /\ pc' = "Sending"
    /\ UNCHANGED <<webhook, secret, ats, msg, check_mode, timestamp, response,
                   failure, raised, reports, prev>>

\* requests.post returns a response; sendTextmessage returns response.json,
\* the bound method, without calling it or reading the status, main drops the
\* value and reports success (lines 146-147, 168, 173-174).
Respond(r) ==
    /\ pc = "Sending"
    /\ response' = Some(r)
    /\ reports' = Append(reports, exit_json(ExitKwargs))
    /\ pc' = "Succeeded"
    /\ UNCHANGED <<webhook, secret, ats, msg, check_mode, timestamp,
                   string_to_sign, sign, requests, failure, raised, prev>>

\* requests.post raises; the exception leaves sendTextmessage and reaches the
\* except clause of main (lines 146, 170-171).
Raise(cond) ==
    /\ pc = "Sending"
    /\ failure' = cond
    /\ LET out == Propagate(RequestsException(cond, webhook), reports)
       IN  /\ pc' = out.pc
           /\ reports' = out.reports
           /\ raised' = out.raised
    /\ UNCHANGED <<webhook, secret, ats, msg, check_mode, timestamp,
                   string_to_sign, sign, requests, response, prev>>

Responds == \E r \in Responses : Respond(r)
Raises   == \E cond \in NetworkFailures : Raise(cond)

Next == Start \/ Sign \/ Responds \/ Raises

Spec == Init /\ [][Next]_vars

\* The HTTP call eventually returns or raises.
HttpReturns == Responds \/ Raises

LiveSpec == Init /\ [][Next]_vars /\ WF_vars(HttpReturns)

-----------------------------------------------------------------------------
(* Two invocations, one after the other: each is a process of its own *)

Summary ==
    [webhook |-> webhook, secret |-> secret, ats |-> ats, msg |-> msg,
     check_mode |-> check_mode, pc |-> pc, timestamp |-> timestamp,
     requests |-> requests, response |-> response, failure |-> failure,
     reports |-> reports]

\* The playbook runs the module again (lines 176-177).
Reinvoke ==
    /\ pc \in Terminal
    /\ prev' = Some(Summary)
    /\ webhook' \in Webhooks
    /\ secret' \in Secrets
    /\ ats' \in AtsValues
    /\ msg' \in Msgs
    /\ check_mode' \in BOOLEAN
    /\ pc' = "Idle"
    /\ timestamp' = None
    /\ string_to_sign' = None
    /\ sign' = None
    /\ requests' = <<>>
    /\ response' = None
    /\ failure' = "none"
    /\ raised' = None
    /\ reports' = <<>>

NextPair == Start \/ Sign \/ Responds \/ Raises \/ Reinvoke

PairSpec == Init /\ [][NextPair]_vars

-----------------------------------------------------------------------------
(* gen_sign on its own *)

MaxTime == 11
MaxSecretLen == 1

SecretAlphabet == { "1", LF, NUL }

SignSecrets ==
    UNION { [1..n -> SecretAlphabet] : n \in 0..MaxSecretLen }

InitSign ==
    /\ webhook = CHOOSE w \in Webhooks : TRUE
    /\ secret \in SignSecrets
    /\ ats = None
    /\ msg = <<>>
    /\ check_mode = FALSE
    /\ pc = "Signing"
    /\ timestamp \in { Some(t) : t \in 0..MaxTime }
    /\ string_to_sign = None
    /\ sign = None
    /\ requests = <<>>
    /\ response = None
    /\ failure = "none"
    /\ raised = None
    /\ reports = <<>>
    /\ prev = None

\* robot.gen_sign(timestamp)
GenSign ==
    /\ sign = None
    /\ string_to_sign' = Some(StringToSign(Val(timestamp), secret))
    /\ sign' = Some(gen_sign(secret, Val(timestamp)))
    /\ UNCHANGED <<webhook, secret, ats, msg, check_mode, pc, timestamp,
                   requests, response, failure, raised, reports, prev>>

\* Another robot with another secret signs another timestamp.
NextSigner ==
    /\ sign # None
    /\ prev' = Some([secret |-> secret, timestamp |-> timestamp,
                     string_to_sign |-> string_to_sign, sign |-> sign])
    /\ secret' \in SignSecrets
    /\ timestamp' \in { Some(t) : t \in 0..MaxTime }
    /\ string_to_sign' = None
    /\ sign' = None
    /\ UNCHANGED <<webhook, ats, msg, check_mode, pc, requests, response,
                   failure, raised, reports>>

NextSign == GenSign \/ NextSigner

SignSpec == InitSign /\ [][NextSign]_vars

-----------------------------------------------------------------------------
(* Helpers of the properties *)

EndsWith(s, suffix) ==
    /\ Len(s) >= Len(suffix)
    /\ SubSeq(s, Len(s) - Len(suffix) + 1, Len(s)) = suffix

Contains(s, sub) ==
    \E i \in 0..(Len(s) - Len(sub)) : SubSeq(s, i + 1, i + Len(sub)) = sub

RECURSIVE StripNul(_)
StripNul(s) ==
    IF s # <<>> /\ s[Len(s)] = NUL THEN StripNul(SubSeq(s, 1, Len(s) - 1)) ELSE s

-----------------------------------------------------------------------------
(* Properties *)

\* C1: when the endpoint answers with an application-level rejection (a body
\* whose code is not 0, carrying an error string), the invocation ends in a
\* single failure report whose feishu_error contains that string verbatim,
\* never in a success report.
C1_RemoteRejectionReported ==
    (pc \in Terminal /\ response # None /\ Val(response).code # 0) =>
        /\ pc = "Failed"
        /\ Len(reports) = 1
        /\ reports[1].call = "fail_json"
        /\ Contains(reports[1].kwargs.feishu_error, Val(response).msg)

\* C2: outside check mode, when the send raises a transport-level exception
\* the invocation ends with exactly one report, a failure report whose msg
\* ends with the input msg unchanged and whose cause string and trace are not
\* empty; no success report is emitted and exactly one POST was issued.
C2_TransportFailureReported ==
    (~check_mode /\ failure # "none") =>
        /\ pc = "Failed"
        /\ Len(reports) = 1
        /\ reports[1].call = "fail_json"
        /\ EndsWith(reports[1].kwargs.msg, msg)
        /\ reports[1].kwargs.feishu_error # <<>>
        /\ reports[1].kwargs.exception # <<>>
        /\ Len(requests) = 1

C2_Witness ==
    /\ ~check_mode
    /\ failure = "aborted"
    /\ pc = "Failed"
    /\ msg = <<"h", "i">>

\* C3: outside check mode, when the POST completes with status 200 and code 0
\* the invocation ends with exactly one report, a success report with msg and
\* ats equal to the inputs and changed true.
C3_SuccessReported ==
    (~check_mode /\ response # None
        /\ Val(response).status = 200 /\ Val(response).code = 0) =>
        /\ pc = "Succeeded"
        /\ Len(reports) = 1
        /\ reports[1].call = "exit_json"
        /\ reports[1].kwargs.msg = msg
        /\ reports[1].kwargs.ats = ats
        /\ reports[1].kwargs.changed = TRUE

C3_Witness ==
    /\ ~check_mode
    /\ response # None
    /\ Val(response).status = 200
    /\ Val(response).code = 0
    /\ ats # None
    /\ pc = "Succeeded"

\* C4 as stated: every step of every run is Idle -> Signing, Signing ->
\* Sending with the signature computed and the one POST issued, or Sending ->
\* Succeeded or Failed with no further POST; no step leaves a terminal state.
C4_StepAsStated ==
    /\ pc = "Idle" => pc' = "Signing"
    /\ pc = "Signing" =>
          pc' = "Sending" /\ sign' # None /\ requests = <<>> /\ Len(requests') = 1
    /\ pc = "Sending" => pc' \in Terminal /\ requests' = requests
    /\ pc \in Terminal => UNCHANGED vars

C4_EveryRunFollowsTheStateMachine == [][C4_StepAsStated]_vars

\* C4 amended: outside check mode every step is Idle -> Signing, Signing ->
\* Sending with the signature computed and the one POST issued, or Sending ->
\* Succeeded or Failed with no further POST; in check mode the only step is
\* Idle -> Succeeded with no signature and no POST; no step leaves a terminal
\* state, and at most one POST is ever issued.
C4_StepAmended ==
    /\ (pc = "Idle" /\ ~check_mode) => pc' = "Signing" /\ requests' = <<>>
    /\ (pc = "Idle" /\ check_mode) =>
          pc' = "Succeeded" /\ sign' = None /\ requests' = <<>>
    /\ pc = "Signing" =>
          pc' = "Sending" /\ sign' # None /\ requests = <<>> /\ Len(requests') = 1
    /\ pc = "Sending" => pc' \in Terminal /\ requests' = requests
    /\ pc \in Terminal => UNCHANGED vars

C4_RunFollowsTheStateMachineOrSkips ==
    [][C4_StepAmended]_vars /\ [](Len(requests) <= 1)

C4_Witness ==
    /\ ~check_mode
    /\ pc = "Failed"
    /\ sign # None
    /\ Len(requests) = 1

\* C5: the body of every POST issued decodes to the reference payload: the
\* timestamp field is the decimal string of the captured time, the sign field
\* is gen_sign of the very timestamp the timestamp field reads as, msg_type
\* is "text" and content.text is exactly msg.
C5_BodyIsReferencePayload ==
    \A i \in 1..Len(requests) :
        LET body == requests[i].data IN
        /\ DOMAIN body = {"timestamp", "sign", "msg_type", "content"}
        /\ DOMAIN body.content = {"text"}
        /\ JsonLoadsString(body.timestamp) = Dec(Val(timestamp))
        /\ body.sign.literal =
              gen_sign(secret, ParseDec(JsonLoadsString(body.timestamp)))
        /\ JsonLoadsString(body.msg_type) = <<"t", "e", "x", "t">>
        /\ JsonLoadsString(body.content.text) = msg

C5_Witness ==
    /\ Len(requests) = 1
    /\ msg = <<QUOTE, BS, LF>>
    /\ timestamp = Some(10)

\* C6: two invocations that differ only in webhook or only in secret and
\* meet the same network outcome emit identical reports.
C6_ReportsIndependentOfCredentials ==
    (/\ prev # None
     /\ pc \in Terminal
     /\ Val(prev).webhook = webhook \/ Val(prev).secret = secret
     /\ Val(prev).ats = ats
     /\ Val(prev).msg = msg
     /\ Val(prev).check_mode = check_mode
     /\ Val(prev).response = response
     /\ Val(prev).failure = failure)
    => Val(prev).reports = reports

C8_SendingLeadsToTerminal ==
    /\ (pc = "Sending") ~> (pc \in Terminal)
    /\ []((pc \in Terminal /\ requests # <<>>) => Len(reports) = 1)

C8_Witness ==
    /\ pc \in Terminal
    /\ Len(requests) = 1
    /\ Len(reports) = 1

\* C9 as stated: two (secret, timestamp) pairs that differ in the secret or in
\* the timestamp get different signatures.
C9_DistinctPairsDistinctSignatures ==
    (/\ prev # None
     /\ sign # None
     /\ Val(prev).secret # secret \/ Val(prev).timestamp # timestamp)
    => Val(prev).sign # sign

\* C9 amended: two pairs that differ in the secret or in the timestamp have
\* different signed strings, and they get the same signature exactly when
\* the signed strings differ only in trailing NUL characters.
C9_DistinctPairsDistinctSignedStrings ==
    (/\ prev # None
     /\ sign # None
     /\ Val(prev).secret # secret \/ Val(prev).timestamp # timestamp)
    => /\ Val(prev).string_to_sign # string_to_sign
       /\ (Val(prev).sign = sign) <=>
             (StripNul(Val(Val(prev).string_to_sign)) = StripNul(Val(string_to_sign)))

C9_Witness ==
    /\ prev # None
    /\ sign # None
    /\ Val(prev).secret = <<LF>>
    /\ Val(prev).timestamp = Some(1)
    /\ secret = <<"1">>
    /\ timestamp = Some(11)
    /\ Val(prev).sign # sign

\* C10: in check mode no POST is issued and no signature is computed, and the
\* invocation ends with the single report changed=false: never a failure
\* report, never the changed=true report.
C10_CheckModeSendsNothing ==
    check_mode =>
        /\ requests = <<>>
        /\ sign = None
        /\ string_to_sign = None
        /\ pc \in {"Idle", "Succeeded"}
        /\ pc = "Idle" => reports = <<>>
        /\ pc = "Succeeded" =>
              /\ Len(reports) = 1
              /\ reports[1].call = "exit_json"
              /\ reports[1].kwargs = [changed |-> FALSE]

C10_Witness ==
    /\ check_mode
    /\ pc = "Succeeded"
    /\ Len(reports) = 1

====
